---- MODULE Spec2Model ----
(***************************************************************************)
(* Model of config.go: getTranscoders (the parse / validate loop over the  *)
(* configured transcode tokens) and removeDuplicateTranscodes (stable sort *)
(* and duplicate scan).  A token is a sequence of one-character strings,   *)
(* so that strings.Split and strconv.Atoi are modelled by what they do.    *)
(***************************************************************************)
EXTENDS Integers, Sequences, FiniteSets, TLC

VARIABLES
    Transcoders,        \* config.Transcoders: the raw tokens
    sourceResolution,   \* process-wide source resolution
    sourceFramerate,    \* process-wide source framerate
    i,                  \* position of the range loop in config.Transcoders
    resolution,         \* loop local
    framerate,          \* loop local
    transcoders,        \* the slice getTranscoders appends to
    result,             \* the slice getTranscoders returns
    log,                \* the lines printed by fmt.Println
    pc,                 \* position inside getTranscoders
    configFile,         \* NewConfig's argument
    fs,                 \* the files: path -> content
    ncPc,               \* position inside NewConfig
    seedStr,            \* NewConfig local
    cfg,                \* NewConfig local (the decoded Config)
    ret                 \* what the last NewConfig call returned

passVars == <<Transcoders, sourceResolution, sourceFramerate, i, resolution,
              framerate, transcoders, result, log, pc>>

cfgVars == <<configFile, fs, ncPc, seedStr, cfg, ret>>

vars == <<passVars, cfgVars>>

----------------------------------------------------------------------------
(* Bounds and inputs *)

MaxTokens == 3

\* framerate := 30
DefaultFramerate == 30

TokenPool ==
    { <<"1","0","8","0","p","3","0">>,
      <<"1","0","8","0","p","6","0">>,
      <<"7","2","0","p">>,
      <<"4","8","0","p","6","0">>,
      <<"7","2","0","p","1","2","0">>,
      <<"1","9","2","0","p","3","0">>,
      <<"0","p","3","0">>,
      <<"7","2","0","p","-","5">>,
      <<"x","p","3","0">>,
      <<"7","2","0","p","x">>,
      <<"7","2","0","p","x","p">>,
      <<"4","8","0","p","9","9","9","9","9","9","9","9","9","9",
        "9","9","9","9","9","9","9","9","9","9">> }

Sources ==
    { [resolution |-> 1920, framerate |-> 60],
      [resolution |-> 1920, framerate |-> 30],
      [resolution |-> 720,  framerate |-> 30] }

RECURSIVE SeqsUpTo(_, _)
SeqsUpTo(S, n) ==
    IF n = 0 THEN { <<>> }
    ELSE LET shorter == SeqsUpTo(S, n - 1)
         IN  shorter \cup { Append(s, x) : s \in { t \in shorter : Len(t) = n - 1 }, x \in S }

----------------------------------------------------------------------------
(* strings.Split(v, "p") *)

RECURSIVE IndexOf(_, _, _)
IndexOf(s, c, k) ==
    IF k > Len(s) THEN 0
    ELSE IF s[k] = c THEN k
    ELSE IndexOf(s, c, k + 1)

RECURSIVE Split(_, _)
Split(s, sep) ==
    LET k == IndexOf(s, sep, 1)
    IN  IF k = 0 THEN << s >>
        ELSE << SubSeq(s, 1, k - 1) >> \o Split(SubSeq(s, k + 1, Len(s)), sep)

----------------------------------------------------------------------------
(* strconv.Atoi: an optional sign, then one or more decimal digits, the     *)
(* value within the range of a 64-bit int; anything else is an error.       *)

Digits == <<"0","1","2","3","4","5","6","7","8","9">>

IsDigit(c) == \E d \in 1..10 : Digits[d] = c

DigitValue(c) == (CHOOSE d \in 1..10 : Digits[d] = c) - 1

\* 2^63 - 1 and 2^63, as digits
MaxIntDigits == <<"9","2","2","3","3","7","2","0","3","6","8","5","4","7","7","5","8","0","7">>
MinIntDigits == <<"9","2","2","3","3","7","2","0","3","6","8","5","4","7","7","5","8","0","8">>

RECURSIVE StripZeros(_)
StripZeros(s) ==
    IF Len(s) > 1 /\ s[1] = "0" THEN StripZeros(Tail(s)) ELSE s

RECURSIVE DigitsGreater(_, _)
\* for digit strings of the same length
DigitsGreater(a, b) ==
    IF a = <<>> THEN FALSE
    ELSE IF a[1] # b[1] THEN DigitValue(a[1]) > DigitValue(b[1])
    ELSE DigitsGreater(Tail(a), Tail(b))

OutOfRange(digits, limit) ==
    LET d == StripZeros(digits)
    IN  \/ Len(d) > Len(limit)
        \/ Len(d) = Len(limit) /\ DigitsGreater(d, limit)

RECURSIVE DigitsToInt(_, _)
DigitsToInt(s, n) ==
    IF s = <<>> THEN n ELSE DigitsToInt(Tail(s), n * 10 + DigitValue(s[1]))

Atoi(s) ==
    LET signed == Len(s) > 0 /\ s[1] \in {"+", "-"}
        neg    == Len(s) > 0 /\ s[1] = "-"
        digits == IF signed THEN Tail(s) ELSE s
    IN  IF \/ digits = <<>>
           \/ \E k \in 1..Len(digits) : ~IsDigit(digits[k])
           \/ OutOfRange(digits, IF neg THEN MinIntDigits ELSE MaxIntDigits)
        THEN [err |-> TRUE, n |-> 0]
        ELSE [err |-> FALSE,
              n   |-> IF neg THEN 0 - DigitsToInt(digits, 0) ELSE DigitsToInt(digits, 0)]

----------------------------------------------------------------------------
(* removeDuplicateTranscodes *)

Transcode(r, f) == [Resolution |-> r, Framerate |-> f]

\* less with the framerate order reversed (return ... Framerate < ...)
less_FramerateAscending(a, b) ==
    IF a.Resolution # b.Resolution
    THEN a.Resolution > b.Resolution
    ELSE a.Framerate < b.Framerate

\* less without the framerate tie-break
less_ResolutionOnly(a, b) == a.Resolution > b.Resolution

\* the less function given to sort.SliceStable
less(a, b) ==
    IF a.Resolution # b.Resolution
    THEN a.Resolution > b.Resolution
    ELSE a.Framerate > b.Framerate

RECURSIVE InsertStable(_, _)
\* x goes before the first element it is less than, after every other one
InsertStable(x, s) ==
    IF s = <<>> THEN << x >>
    ELSE IF less(x, s[1]) THEN << x >> \o s
    ELSE << s[1] >> \o InsertStable(x, Tail(s))

RECURSIVE SliceStable(_)
SliceStable(s) ==
    IF s = <<>> THEN <<>>
    ELSE InsertStable(s[Len(s)], SliceStable(SubSeq(s, 1, Len(s) - 1)))

\* the scan keeping an entry whose framerate equals the recorded one (>=)
Unseen_NotLower(t, seen) ==
    \/ t.Resolution \notin DOMAIN seen
    \/ t.Framerate >= seen[t.Resolution]

\* prevFramerate, ok := seen[Resolution]; !ok || Framerate > prevFramerate
Unseen(t, seen) ==
    \/ t.Resolution \notin DOMAIN seen
    \/ t.Framerate > seen[t.Resolution]

SeenPut(seen, t) ==
    [r \in (DOMAIN seen) \cup {t.Resolution} |->
        IF r = t.Resolution THEN t.Framerate ELSE seen[r]]

RECURSIVE ScanUnique(_, _, _)
ScanUnique(s, seen, unique) ==
    IF s = <<>> THEN unique
    ELSE IF Unseen(s[1], seen)
         THEN ScanUnique(Tail(s), SeenPut(seen, s[1]), Append(unique, s[1]))
         ELSE ScanUnique(Tail(s), seen, unique)

removeDuplicateTranscodes(transcodes) ==
    ScanUnique(SliceStable(transcodes), [r \in {} |-> 0], <<>>)

----------------------------------------------------------------------------
(* The configuration file and NewConfig *)

ConfigPath == "config.json"
MediaMTXPath == "mediamtx.yml"
Paths == {ConfigPath, MediaMTXPath}

DefaultTitle == "Unnamed Stream"

\* a file: absent, a JSON object (a set of <<key, value>>), or other text
Absent == [kind |-> "absent", doc |-> {}, text |-> ""]
Json(doc) == [kind |-> "json", doc |-> doc, text |-> ""]
Text(t) == [kind |-> "text", doc |-> {}, text |-> t]

mediaMTXDefaults == Text("mediaMTXDefaults")

\* what a failed os.WriteFile may leave behind: nothing, or an empty file
Truncated == Text("")

Config(seed, title, owner, tokens) ==
    [Seed |-> seed, Title |-> title, Owner |-> owner, Transcoders |-> tokens]

ZeroConfig == Config("", "", "", <<>>)

\* json.MarshalIndent(defaultConfig): the field tag of Transcoders is not a
\* key:"value" pair, so the key is the field name; a nil slice is null
Marshal(c) ==
    { <<"seed", c.Seed>>, <<"title", c.Title>>, <<"owner", c.Owner>>,
      <<"Transcoders", IF c.Transcoders = <<>> THEN "null" ELSE "[...]">> }

HasKey(doc, key) == \E p \in doc : p[1] = key

Value(doc, key) ==
    IF HasKey(doc, key) THEN (CHOOSE p \in doc : p[1] = key)[2] ELSE ""

\* decoder.Decode(&cfg): a missing key leaves the zero value
Unmarshal(doc) == Config(Value(doc, "seed"), Value(doc, "title"), Value(doc, "owner"), <<>>)

\* the seeds nkn.NewAccount can draw, and the titles a user can write
Seeds == {"s1", "s2"}
Titles == {"", "My Stream"}

\* the configuration files a run can find
InitialFiles ==
    { Absent,
      Text("not json"),
      Json({}),
      Json({ <<"seed", "s0">>, <<"title", "My Stream">> }),
      Json({ <<"seed", "s0">>, <<"owner", "me">> }) }

NoReturn == [returned |-> FALSE, cfgNil |-> TRUE, cfg |-> ZeroConfig, err |-> ""]
ReturnConfig(c) == [returned |-> TRUE, cfgNil |-> FALSE, cfg |-> c, err |-> ""]
ReturnError(e) == [returned |-> TRUE, cfgNil |-> TRUE, cfg |-> ZeroConfig, err |-> e]

\* no NewConfig call in this run of the model
NoConfigCall ==
    /\ configFile = ConfigPath
    /\ fs = [p \in Paths |-> Absent]
    /\ ncPc = "idle"
    /\ seedStr = ""
    /\ cfg = ZeroConfig
    /\ ret = NoReturn

\* no getTranscoders pass in this run of the model
NoPass ==
    /\ Transcoders = <<>>
    /\ sourceResolution = 0
    /\ sourceFramerate = 0
    /\ i = 1
    /\ resolution = 0
    /\ framerate = 0
    /\ transcoders = <<>>
    /\ result = <<>>
    /\ log = <<>>
    /\ pc = "idle"

InitConfig ==
    /\ NoPass
    /\ configFile \in Paths
    /\ \E c \in InitialFiles, m \in {Absent, mediaMTXDefaults} :
          fs = [p \in Paths |-> IF p = configFile THEN c
                                ELSE IF p = MediaMTXPath THEN m ELSE Absent]
    /\ ncPc = "idle"
    /\ seedStr = ""
    /\ cfg = ZeroConfig
    /\ ret = NoReturn

NotRunning == ncPc \in {"idle", "returned", "panicked"}

Returns(r) ==
    /\ ret' = r
    /\ ncPc' = "returned"

\* a process starts and calls NewConfig(configFile)
CallNewConfig ==
    /\ NotRunning
    /\ ncPc' = "mediamtx"
    /\ seedStr' = ""
    /\ cfg' = ZeroConfig
    /\ ret' = NoReturn
    /\ UNCHANGED <<configFile, fs>>
    /\ UNCHANGED passVars

\* generateMediaMTXConfig(): the error of os.WriteFile is dropped
generateMediaMTXConfig ==
    /\ ncPc = "mediamtx"
    /\ \/ /\ fs[MediaMTXPath] = Absent
          /\ \E written \in {mediaMTXDefaults, Truncated, Absent} :
                fs' = [fs EXCEPT ![MediaMTXPath] = written]
       \/ /\ fs[MediaMTXPath] # Absent
          /\ UNCHANGED fs
    /\ ncPc' = "stat"
    /\ UNCHANGED <<configFile, seedStr, cfg, ret>>
    /\ UNCHANGED passVars

\* _, err := os.Stat(configFile)
StatConfig ==
    /\ ncPc = "stat"
    /\ \/ /\ fs[configFile] = Absent
          /\ ncPc' = "newAccount"
          /\ UNCHANGED ret
       \/ /\ fs[configFile] # Absent
          /\ ncPc' = "open"
          /\ UNCHANGED ret
       \/ Returns(ReturnError("stat"))
    /\ UNCHANGED <<configFile, fs, seedStr, cfg>>
    /\ UNCHANGED passVars

\* newWallet, _ := nkn.NewAccount(nil); seedStr := hex.EncodeToString(newWallet.Seed())
\* the error is dropped: on failure newWallet is nil and Seed() panics
NewAccount ==
    /\ ncPc = "newAccount"
    /\ \/ \E s \in Seeds :
             /\ seedStr' = s
             /\ ncPc' = "write"
       \/ /\ ncPc' = "panicked"
          /\ UNCHANGED seedStr
    /\ UNCHANGED <<configFile, fs, cfg, ret>>
    /\ UNCHANGED passVars

\* defaultConfig, json.MarshalIndent, os.WriteFile(configFile, data, 0644)
WriteDefault ==
    /\ ncPc = "write"
    /\ LET defaultConfig == Config(seedStr, DefaultTitle, "", <<>>)
       IN  \/ /\ fs' = [fs EXCEPT ![configFile] = Json(Marshal(defaultConfig))]
              /\ Returns(ReturnConfig(defaultConfig))
           \/ /\ \E left \in {Absent, Truncated} : fs' = [fs EXCEPT ![configFile] = left]
              /\ Returns(ReturnError("error creating config file"))
    /\ UNCHANGED <<configFile, seedStr, cfg>>
    /\ UNCHANGED passVars

\* f, err := os.Open(configFile)
OpenConfig ==
    /\ ncPc = "open"
    /\ \/ /\ ncPc' = "decode"
          /\ UNCHANGED ret
       \/ Returns(ReturnError("open"))
    /\ UNCHANGED <<configFile, fs, seedStr, cfg>>
    /\ UNCHANGED passVars

\* err = decoder.Decode(&cfg)
Decode ==
    /\ ncPc = "decode"
    /\ \/ /\ fs[configFile].kind = "json"
          /\ cfg' = Unmarshal(fs[configFile].doc)
          /\ ncPc' = "title"
          /\ UNCHANGED ret
       \/ /\ fs[configFile].kind # "json"
          /\ Returns(ReturnError("decode"))
          /\ UNCHANGED cfg
       \/ /\ Returns(ReturnError("read"))
          /\ UNCHANGED cfg
    /\ UNCHANGED <<configFile, fs, seedStr>>
    /\ UNCHANGED passVars

\* SetDefaults writing the backfilled title back to the file
SetDefaults_Persist ==
    /\ ncPc = "title"
    /\ LET c == IF cfg.Title = "" THEN [cfg EXCEPT !.Title = DefaultTitle] ELSE cfg
       IN  /\ cfg' = c
           /\ fs' = IF cfg.Title = ""
                    THEN [fs EXCEPT ![configFile] = Json(Marshal(c))]
                    ELSE fs
           /\ Returns(ReturnConfig(c))
    /\ UNCHANGED <<configFile, seedStr>>
    /\ UNCHANGED passVars

\* SetDefaults replacing the title whatever it is
SetDefaults_Always ==
    /\ ncPc = "title"
    /\ cfg' = [cfg EXCEPT !.Title = DefaultTitle]
    /\ Returns(ReturnConfig(cfg'))
    /\ UNCHANGED <<configFile, fs, seedStr>>
    /\ UNCHANGED passVars

\* if cfg.Title == "" { cfg.Title = "Unnamed Stream" }; return &cfg, nil
SetDefaults ==
    /\ ncPc = "title"
    /\ cfg' = IF cfg.Title = "" THEN [cfg EXCEPT !.Title = DefaultTitle] ELSE cfg
    /\ Returns(ReturnConfig(cfg'))
    /\ UNCHANGED <<configFile, fs, seedStr>>
    /\ UNCHANGED passVars

\* between two runs the user writes a title into the configuration file
EditTitle ==
    /\ NotRunning
    /\ fs[configFile].kind = "json"
    /\ \E t \in Titles :
          fs' = [fs EXCEPT ![configFile] =
                    Json({ p \in fs[configFile].doc : p[1] # "title" } \cup { <<"title", t>> })]
    /\ UNCHANGED <<configFile, ncPc, seedStr, cfg, ret>>
    /\ UNCHANGED passVars

\* between two runs the user removes the configuration file
RemoveConfig ==
    /\ NotRunning
    /\ fs[configFile] # Absent
    /\ fs' = [fs EXCEPT ![configFile] = Absent]
    /\ UNCHANGED <<configFile, ncPc, seedStr, cfg, ret>>
    /\ UNCHANGED passVars

NextConfig ==
    \/ CallNewConfig
    \/ generateMediaMTXConfig
    \/ StatConfig
    \/ NewAccount
    \/ WriteDefault
    \/ OpenConfig
    \/ Decode
    \/ SetDefaults
    \/ EditTitle
    \/ RemoveConfig

SpecConfig == InitConfig /\ [][NextConfig]_vars

----------------------------------------------------------------------------
(* getTranscoders, one step per statement that reads the source values *)

v == Transcoders[i]

transcodeStr == Split(v, "p")

Init ==
    /\ Transcoders \in SeqsUpTo(TokenPool, MaxTokens)
    /\ \E s \in Sources :
          /\ sourceResolution = s.resolution
          /\ sourceFramerate = s.framerate
    /\ i = 1
    /\ resolution = 0
    /\ framerate = 0
    /\ transcoders = <<>>
    /\ result = <<>>
    /\ log = <<>>
    /\ pc = "range"
    /\ NoConfigCall

\* continue: the next token, the loop locals gone
Continue ==
    /\ i' = i + 1
    /\ resolution' = 0
    /\ framerate' = 0
    /\ pc' = "range"

\* ParseResolution leaving the loop on an invalid token (break for continue)
ParseResolution_Break ==
    /\ pc = "range"
    /\ i <= Len(Transcoders)
    /\ LET r == Atoi(transcodeStr[1])
       IN  IF r.err
           THEN /\ log' = Append(log, [msg |-> "Skipping invalid transcode value in config:", v |-> v])
                /\ i' = Len(Transcoders) + 1
                /\ pc' = "range"
                /\ UNCHANGED <<resolution, framerate>>
           ELSE /\ resolution' = r.n
                /\ pc' = "checkResolution"
                /\ UNCHANGED <<i, framerate, log>>
    /\ UNCHANGED cfgVars
    /\ UNCHANGED <<Transcoders, sourceResolution, sourceFramerate, transcoders, result>>

\* resolution, err := strconv.Atoi(transcodeStr[0])
ParseResolution ==
    /\ pc = "range"
    /\ i <= Len(Transcoders)
    /\ LET r == Atoi(transcodeStr[1])
       IN  IF r.err
           THEN /\ log' = Append(log, [msg |-> "Skipping invalid transcode value in config:", v |-> v])
                /\ Continue
           ELSE /\ resolution' = r.n
                /\ pc' = "checkResolution"
                /\ UNCHANGED <<i, framerate, log>>
    /\ UNCHANGED cfgVars
    /\ UNCHANGED <<Transcoders, sourceResolution, sourceFramerate, transcoders, result>>

\* CheckResolution skipping the token without printing anything
CheckResolution_Silent ==
    /\ pc = "checkResolution"
    /\ IF sourceResolution <= resolution
       THEN /\ Continue
            /\ UNCHANGED log
       ELSE /\ pc' = "parseFramerate"
            /\ UNCHANGED <<i, resolution, framerate, log>>
    /\ UNCHANGED cfgVars
    /\ UNCHANGED <<Transcoders, sourceResolution, sourceFramerate, transcoders, result>>

\* if sourceResolution <= resolution
CheckResolution ==
    /\ pc = "checkResolution"
    /\ IF sourceResolution <= resolution
       THEN /\ log' = Append(log, [msg |-> "Skipping transcode value in config:", v |-> v,
                                   why |-> "stream source is smaller:", n |-> sourceResolution])
            /\ Continue
       ELSE /\ pc' = "parseFramerate"
            /\ UNCHANGED <<i, resolution, framerate, log>>
    /\ UNCHANGED cfgVars
    /\ UNCHANGED <<Transcoders, sourceResolution, sourceFramerate, transcoders, result>>

\* ParseFramerate without the len(transcodeStr[1]) > 0 test
ParseFramerate_NoEmptyCheck ==
    /\ pc = "parseFramerate"
    /\ IF Len(transcodeStr) = 2
       THEN LET f == Atoi(transcodeStr[2])
            IN  IF f.err
                THEN /\ log' = Append(log, [msg |-> "Skipping invalid transcode value in config:", v |-> v])
                     /\ Continue
                ELSE /\ framerate' = f.n
                     /\ pc' = "compareFramerate"
                     /\ UNCHANGED <<i, resolution, log>>
       ELSE /\ framerate' = DefaultFramerate
            /\ pc' = "compareFramerate"
            /\ UNCHANGED <<i, resolution, log>>
    /\ UNCHANGED cfgVars
    /\ UNCHANGED <<Transcoders, sourceResolution, sourceFramerate, transcoders, result>>

\* framerate := 30; if len(transcodeStr) == 2 && len(transcodeStr[1]) > 0
ParseFramerate ==
    /\ pc = "parseFramerate"
    /\ IF Len(transcodeStr) = 2 /\ Len(transcodeStr[2]) > 0
       THEN LET f == Atoi(transcodeStr[2])
            IN  IF f.err
                THEN /\ log' = Append(log, [msg |-> "Skipping invalid transcode value in config:", v |-> v])
                     /\ Continue
                ELSE /\ framerate' = f.n
                     /\ pc' = "compareFramerate"
                     /\ UNCHANGED <<i, resolution, log>>
       ELSE /\ framerate' = DefaultFramerate
            /\ pc' = "compareFramerate"
            /\ UNCHANGED <<i, resolution, log>>
    /\ UNCHANGED cfgVars
    /\ UNCHANGED <<Transcoders, sourceResolution, sourceFramerate, transcoders, result>>

\* CompareFramerate with the comparison reversed (framerate < sourceFramerate)
CompareFramerate_Reversed ==
    /\ pc = "compareFramerate"
    /\ pc' = IF framerate < sourceFramerate THEN "lowerFramerate" ELSE "checkEqual"
    /\ UNCHANGED cfgVars
    /\ UNCHANGED <<Transcoders, sourceResolution, sourceFramerate, i, resolution,
                   framerate, transcoders, result, log>>

\* if framerate > sourceFramerate
CompareFramerate ==
    /\ pc = "compareFramerate"
    /\ pc' = IF framerate > sourceFramerate THEN "lowerFramerate" ELSE "checkEqual"
    /\ UNCHANGED cfgVars
    /\ UNCHANGED <<Transcoders, sourceResolution, sourceFramerate, i, resolution,
                   framerate, transcoders, result, log>>

\* LowerFramerate dropping the token instead of lowering its framerate
LowerFramerate_Skip ==
    /\ pc = "lowerFramerate"
    /\ log' = Append(log, [msg |-> "Lowering transcode framerate value in config:", v |-> v,
                           why |-> "stream source framerate:", n |-> sourceFramerate])
    /\ Continue
    /\ UNCHANGED cfgVars
    /\ UNCHANGED <<Transcoders, sourceResolution, sourceFramerate, transcoders, result>>

\* framerate = sourceFramerate
LowerFramerate ==
    /\ pc = "lowerFramerate"
    /\ framerate' = sourceFramerate
    /\ log' = Append(log, [msg |-> "Lowering transcode framerate value in config:", v |-> v,
                           why |-> "stream source framerate:", n |-> sourceFramerate])
    /\ pc' = "checkEqual"
    /\ UNCHANGED cfgVars
    /\ UNCHANGED <<Transcoders, sourceResolution, sourceFramerate, i, resolution,
                   transcoders, result>>

\* if sourceResolution == resolution && framerate == sourceFramerate
CheckEqual ==
    /\ pc = "checkEqual"
    /\ IF sourceResolution = resolution /\ framerate = sourceFramerate
       THEN /\ log' = Append(log, [msg |-> "Skipping transcode value in config:", v |-> v,
                                   why |-> "stream source resolution and framerate are equal"])
            /\ Continue
       ELSE /\ pc' = "append"
            /\ UNCHANGED <<i, resolution, framerate, log>>
    /\ UNCHANGED cfgVars
    /\ UNCHANGED <<Transcoders, sourceResolution, sourceFramerate, transcoders, result>>

\* transcoders = append(transcoders, Transcode{...})
AppendTranscode ==
    /\ pc = "append"
    /\ transcoders' = Append(transcoders, Transcode(resolution, framerate))
    /\ Continue
    /\ UNCHANGED cfgVars
    /\ UNCHANGED <<Transcoders, sourceResolution, sourceFramerate, result, log>>

\* return removeDuplicateTranscodes(transcoders); the sort is in place
Return ==
    /\ pc = "range"
    /\ i > Len(Transcoders)
    /\ transcoders' = SliceStable(transcoders)
    /\ result' = removeDuplicateTranscodes(transcoders)
    /\ pc' = "done"
    /\ UNCHANGED cfgVars
    /\ UNCHANGED <<Transcoders, sourceResolution, sourceFramerate, i, resolution,
                   framerate, log>>

Next ==
    \/ ParseResolution
    \/ CheckResolution
    \/ ParseFramerate
    \/ CompareFramerate
    \/ LowerFramerate
    \/ CheckEqual
    \/ AppendTranscode
    \/ Return

Spec == Init /\ [][Next]_vars

----------------------------------------------------------------------------
(* A pass while another goroutine assigns the process-wide source values *)

MaxRaceTokens == 2

InitRace ==
    /\ Init
    /\ Len(Transcoders) <= MaxRaceTokens

\* sourceResolution = ...
SetSourceResolution ==
    /\ pc # "done"
    /\ \E s \in Sources : sourceResolution' = s.resolution
    /\ UNCHANGED cfgVars
    /\ UNCHANGED <<Transcoders, sourceFramerate, i, resolution, framerate,
                   transcoders, result, log, pc>>

\* sourceFramerate = ...
SetSourceFramerate ==
    /\ pc # "done"
    /\ \E s \in Sources : sourceFramerate' = s.framerate
    /\ UNCHANGED cfgVars
    /\ UNCHANGED <<Transcoders, sourceResolution, i, resolution, framerate,
                   transcoders, result, log, pc>>

NextRace ==
    \/ ParseResolution
    \/ CheckResolution
    \/ ParseFramerate
    \/ CompareFramerate
    \/ LowerFramerate
    \/ CheckEqual
    \/ AppendTranscode
    \/ Return
    \/ SetSourceResolution
    \/ SetSourceFramerate

SpecRace == InitRace /\ [][NextRace]_vars

----------------------------------------------------------------------------
(* getTranscoders as a function of the tokens and the source values: the    *)
(* loop body applied to each token in turn, then removeDuplicateTranscodes  *)

\* one iteration of the range loop: the Transcode it appends, if any
LoopBody(tok, sr, sf) ==
    LET segs == Split(tok, "p")
        r    == Atoi(segs[1])
        f    == IF Len(segs) = 2 /\ Len(segs[2]) > 0
                THEN Atoi(segs[2])
                ELSE [err |-> FALSE, n |-> DefaultFramerate]
        fr   == IF f.n > sf THEN sf ELSE f.n
    IN  IF r.err THEN <<>>
        ELSE IF sr <= r.n THEN <<>>
        ELSE IF f.err THEN <<>>
        ELSE IF sr = r.n /\ fr = sf THEN <<>>
        ELSE << Transcode(r.n, fr) >>

RECURSIVE Candidates(_, _, _)
Candidates(tokens, sr, sf) ==
    IF tokens = <<>> THEN <<>>
    ELSE LoopBody(tokens[1], sr, sf) \o Candidates(Tail(tokens), sr, sf)

getTranscoders(tokens, sr, sf) ==
    removeDuplicateTranscodes(Candidates(tokens, sr, sf))

\* the stepwise pass computes getTranscoders
PassComputesGetTranscoders ==
    pc = "done" => result = getTranscoders(Transcoders, sourceResolution, sourceFramerate)

----------------------------------------------------------------------------
(* Vocabulary of the properties *)

Range(s) == { s[k] : k \in 1..Len(s) }

Min(a, b) == IF a < b THEN a ELSE b

Done == pc = "done"

\* the tokens of the pass that have exactly the shape <int>p or <int>p<int>,
\* an integer being what strconv.Atoi accepts
WellFormed(tok) ==
    LET segs == Split(tok, "p")
    IN  /\ Len(segs) = 2
        /\ ~Atoi(segs[1]).err
        /\ segs[2] = <<>> \/ ~Atoi(segs[2]).err

TokenResolution(tok) == Atoi(Split(tok, "p")[1]).n

TokenFramerate(tok) ==
    LET segs == Split(tok, "p")
    IN  IF segs[2] = <<>> THEN DefaultFramerate ELSE Atoi(segs[2]).n

\* the framerates of the accepted candidates with resolution r
AcceptedFramerates(r) ==
    { t.Framerate : t \in { u \in Range(transcoders) : u.Resolution = r } }

----------------------------------------------------------------------------
(* C1: the sequence getTranscoders returns is sorted strictly descending by *)
(* resolution, so no two of its entries have the same resolution.           *)
C1_StrictlyDescending ==
    Done => \A j, k \in 1..Len(result) :
                j < k => result[j].Resolution > result[k].Resolution

\* a pass that accepted two candidates of one resolution and returned
\* two or more entries
C1_Witness ==
    /\ Done
    /\ Len(result) >= 2
    /\ Len(transcoders) > Len(result)

(* C2: every returned profile has framerate <= source framerate and either  *)
(* resolution < source resolution, or resolution = source resolution with   *)
(* framerate < source framerate; a token whose resolution exceeds the       *)
(* source's, or whose clamped values equal the source's, gives no entry.    *)
C2_WithinSource ==
    \A t \in Range(transcoders) \cup Range(result) :
        /\ t.Framerate <= sourceFramerate
        /\ \/ t.Resolution < sourceResolution
           \/ t.Resolution = sourceResolution /\ t.Framerate < sourceFramerate

\* a finished pass over an upscaling token and a token whose framerate was
\* lowered to the source's
C2_Witness ==
    /\ Done
    /\ \E k \in 1..Len(Transcoders) :
          WellFormed(Transcoders[k]) /\ TokenResolution(Transcoders[k]) > sourceResolution
    /\ \E k \in 1..Len(Transcoders) :
          /\ WellFormed(Transcoders[k])
          /\ TokenFramerate(Transcoders[k]) > sourceFramerate
          /\ \E t \in Range(result) :
                t.Resolution = TokenResolution(Transcoders[k]) /\ t.Framerate = sourceFramerate

(* C3: for every resolution r among the accepted candidates the output has  *)
(* exactly one entry with resolution r, its framerate the maximum over the  *)
(* accepted candidates with resolution r; and every output entry is an      *)
(* accepted candidate.                                                      *)
C3_OnePerResolutionMaxFramerate ==
    Done =>
        /\ \A c \in Range(transcoders) :
              /\ Cardinality({ k \in 1..Len(result) : result[k].Resolution = c.Resolution }) = 1
              /\ \A k \in 1..Len(result) :
                    result[k].Resolution = c.Resolution =>
                        /\ result[k].Framerate \in AcceptedFramerates(c.Resolution)
                        /\ \A f \in AcceptedFramerates(c.Resolution) : f <= result[k].Framerate
        /\ Range(result) \subseteq Range(transcoders)

\* a finished pass that accepted the same resolution at two framerates and
\* twice at the same framerate
C3_Witness ==
    /\ Done
    /\ \E r \in { t.Resolution : t \in Range(transcoders) } :
          Cardinality(AcceptedFramerates(r)) >= 2
    /\ \E j, k \in 1..Len(transcoders) : j # k /\ transcoders[j] = transcoders[k]
    /\ Len(result) = 1

(* C4: a well-formed token whose resolution equals the source resolution    *)
(* and whose (positive) framerate, after clamping, is strictly below the    *)
(* source framerate is accepted, and its resolution appears in the output.  *)
C4_EqualResolutionLowerFramerateAccepted ==
    Done =>
        \A k \in 1..Len(Transcoders) :
            /\ WellFormed(Transcoders[k])
            /\ TokenResolution(Transcoders[k]) = sourceResolution
            /\ TokenFramerate(Transcoders[k]) > 0
            /\ Min(TokenFramerate(Transcoders[k]), sourceFramerate) < sourceFramerate
            => \E t \in Range(result) : t.Resolution = sourceResolution

(* C5: a well-formed token with resolution r below the source resolution    *)
(* and framerate above the source framerate is not rejected: it goes on     *)
(* with its framerate set to the source framerate, and the output holds     *)
(* the entry {r, source framerate}.                                         *)
C5_FramerateClamp ==
    /\ pc \in {"checkEqual", "append"} /\ WellFormed(v) /\ TokenFramerate(v) > sourceFramerate
          => framerate = sourceFramerate
    /\ Done =>
          \A k \in 1..Len(Transcoders) :
              /\ WellFormed(Transcoders[k])
              /\ TokenResolution(Transcoders[k]) < sourceResolution
              /\ TokenFramerate(Transcoders[k]) > sourceFramerate
              => Transcode(TokenResolution(Transcoders[k]), sourceFramerate) \in Range(result)

\* a finished pass over a token asking for more than the source framerate
C5_Witness ==
    /\ Done
    /\ \E k \in 1..Len(Transcoders) :
          /\ WellFormed(Transcoders[k])
          /\ TokenResolution(Transcoders[k]) < sourceResolution
          /\ TokenFramerate(Transcoders[k]) > sourceFramerate
          /\ Transcode(TokenResolution(Transcoders[k]), sourceFramerate) \in Range(result)

\* the decimal form of a natural number
RECURSIVE Itoa(_)
Itoa(n) ==
    IF n < 10 THEN << Digits[n + 1] >>
    ELSE Itoa(n \div 10) \o << Digits[(n % 10) + 1] >>

HasPrefix(s, prefix) ==
    Len(s) >= Len(prefix) /\ SubSeq(s, 1, Len(prefix)) = prefix

\* the resolutions and framerates the tokens "{r}p{f}" are formed from
MaxResolution == 1920
MaxFramerate == 120

(* C6: for positive r and f (values of the program's int) the token         *)
(* "{r}p{f}" parses to resolution r and framerate f, and "{r}p" to          *)
(* resolution r and framerate 30: with r below the source resolution the    *)
(* one-token list yields exactly [{r, min(f, source framerate)}], resp.     *)
(* [{r, min(30, source framerate)}].                                        *)
C6_ParseToken ==
    Done /\ Len(Transcoders) = 1 =>
        \A r \in 1..MaxResolution :
            r < sourceResolution /\ HasPrefix(Transcoders[1], Itoa(r) \o <<"p">>) =>
                /\ Transcoders[1] = Itoa(r) \o <<"p">>
                      => result = << Transcode(r, Min(DefaultFramerate, sourceFramerate)) >>
                /\ \A f \in 1..MaxFramerate :
                      Transcoders[1] = Itoa(r) \o <<"p">> \o Itoa(f)
                          => result = << Transcode(r, Min(f, sourceFramerate)) >>

\* a finished pass over the one token "{r}p", and one over "{r}p{f}"
C6_Witness ==
    /\ Done
    /\ Len(Transcoders) = 1
    /\ \E r \in 1..MaxResolution :
          /\ r < sourceResolution
          /\ Transcoders[1] = Itoa(r) \o <<"p">>
          /\ result = << Transcode(r, DefaultFramerate) >>

\* a token whose first segment is not an integer, or whose second segment
\* is present, non-empty and not an integer
Malformed(tok) ==
    LET segs == Split(tok, "p")
    IN  \/ Atoi(segs[1]).err
        \/ Len(segs) >= 2 /\ segs[2] # <<>> /\ Atoi(segs[2]).err

(* C7: a malformed token produces no candidate, however many further        *)
(* 'p'-separated segments it has: the pass never appends for it.            *)
C7_MalformedExcluded ==
    pc = "append" => ~Malformed(v)

(* C8: every profile returned has resolution > 0 and framerate > 0 (the     *)
(* source values being positive).                                           *)
C8_PositiveProfiles ==
    sourceResolution > 0 /\ sourceFramerate > 0 =>
        \A t \in Range(result) : t.Resolution > 0 /\ t.Framerate > 0

\* the tokens the pass skips: resolution or framerate that does not parse,
\* resolution not smaller than the source's, values identical to the source's
Rejected(tok, sr, sf) ==
    LET segs == Split(tok, "p")
        hasF == Len(segs) = 2 /\ Len(segs[2]) > 0
        fr   == IF hasF THEN Atoi(segs[2]).n ELSE DefaultFramerate
    IN  \/ Atoi(segs[1]).err
        \/ sr <= Atoi(segs[1]).n
        \/ hasF /\ Atoi(segs[2]).err
        \/ sr = Atoi(segs[1]).n /\ Min(fr, sf) = sf

Accepted(tokens, sr, sf) ==
    LET Keep(tok) == ~Rejected(tok, sr, sf) IN SelectSeq(tokens, Keep)

(* C9: a failing token never aborts the pass: the pass goes over all the    *)
(* tokens, and its output is its output on the list without the tokens it   *)
(* rejects.                                                                 *)
C9_FailuresArePerToken ==
    Done =>
        /\ i = Len(Transcoders) + 1
        /\ result = getTranscoders(Accepted(Transcoders, sourceResolution, sourceFramerate),
                                   sourceResolution, sourceFramerate)

\* a finished pass whose first token was rejected and which returned a
\* profile of a later token
C9_Witness ==
    /\ Done
    /\ Len(Transcoders) >= 2
    /\ Rejected(Transcoders[1], sourceResolution, sourceFramerate)
    /\ result # <<>>

Permuted(s, p) == [k \in 1..Len(s) |-> s[p[k]]]

(* C10: for a fixed source the output of getTranscoders is the same for     *)
(* every permutation of the token list.                                     *)
C10_OrderIndependent ==
    Done =>
        \A p \in Permutations(1..Len(Transcoders)) :
            getTranscoders(Permuted(Transcoders, p), sourceResolution, sourceFramerate) = result

\* a finished pass over two tokens of one resolution, the lower framerate
\* first, that returned one profile
C10_Witness ==
    /\ Done
    /\ Len(Transcoders) >= 2
    /\ WellFormed(Transcoders[1]) /\ WellFormed(Transcoders[2])
    /\ TokenResolution(Transcoders[1]) = TokenResolution(Transcoders[2])
    /\ TokenResolution(Transcoders[1]) < sourceResolution
    /\ TokenFramerate(Transcoders[1]) < TokenFramerate(Transcoders[2])
    /\ TokenFramerate(Transcoders[2]) <= sourceFramerate
    /\ Len(result) = 1

----------------------------------------------------------------------------
(* NewConfig *)

Running == ~NotRunning

StoredSeed == Value(fs[configFile].doc, "seed")
StoredTitle == Value(fs[configFile].doc, "title")

(* C11: when the configuration file exists, no step of NewConfig writes to  *)
(* it: its content is the same after the step, whether decoding succeeds    *)
(* or fails and whether or not the title is backfilled in memory.           *)
C11_ExistingFileUntouched ==
    [][ (Running \/ Running') /\ fs[configFile] # Absent
            => fs'[configFile] = fs[configFile] ]_vars

\* a call on an existing file without a title returned the backfilled title
\* and the file still has no title
C11_Witness ==
    /\ ncPc = "returned"
    /\ ret.err = ""
    /\ ret.cfg.Title = DefaultTitle
    /\ fs[configFile].kind = "json"
    /\ ~HasKey(fs[configFile].doc, "title")

(* C12: every persistence failure of NewConfig (stat, open, decode, write,  *)
(* seed generation) comes back as a nil config and a non-nil error;         *)
(* NewConfig never returns a config with a missing seed and never fails in  *)
(* any other way.                                                           *)
C12_FailuresReturned ==
    /\ ncPc # "panicked"
    /\ ncPc = "returned" =>
          \/ ret.cfgNil /\ ret.err # ""
          \/ ~ret.cfgNil /\ ret.err = "" /\ ret.cfg.Seed # ""

(* C13: a call that finds no file and writes one leaves the file holding    *)
(* the fresh seed and the title "Unnamed Stream"; a successful call on an   *)
(* existing file returns the stored seed, and the stored title unless it is *)
(* empty, then "Unnamed Stream"; the seed stored in the file stays the same *)
(* as long as the file is there, a seed being drawn only when it is absent. *)
C13_SeedPersists ==
    [][ /\ ncPc = "write" /\ ret'.returned /\ ret'.err = "" =>
              /\ fs[configFile] = Absent
              /\ fs'[configFile].kind = "json"
              /\ StoredSeed' = seedStr /\ seedStr \in Seeds
              /\ StoredTitle' = DefaultTitle
              /\ ret'.cfg.Seed = seedStr
        /\ ncPc = "title" /\ ret'.returned /\ ret'.err = "" =>
              /\ ret'.cfg.Seed = StoredSeed
              /\ ret'.cfg.Title = IF StoredTitle = "" THEN DefaultTitle ELSE StoredTitle
        /\ fs[configFile].kind = "json" /\ fs'[configFile].kind = "json" =>
              StoredSeed' = StoredSeed
        /\ seedStr' \in Seeds /\ seedStr' # seedStr => fs[configFile] = Absent
      ]_vars

\* a later run returned the seed an earlier run drew, with the title the
\* user wrote in between
C13_Witness ==
    /\ ncPc = "returned"
    /\ ret.err = ""
    /\ ret.cfg.Seed \in Seeds
    /\ ret.cfg.Title = "My Stream"
    /\ StoredSeed = ret.cfg.Seed

----------------------------------------------------------------------------
(* The source values during a pass, and the diagnostics *)

\* the values the source can be given
SourceValues ==
    { [resolution |-> a.resolution, framerate |-> b.framerate] : a, b \in Sources }

(* C14: every token of one pass is validated against the same source        *)
(* resolution and framerate, sampled once: also when another thread changes *)
(* the source values during the pass, the output is the one getTranscoders  *)
(* gives for one single source snapshot, and so within its bounds (stated   *)
(* for the passes over well-formed tokens with positive values).            *)
C14_SingleSnapshot ==
    /\ Done
    /\ \A k \in 1..Len(Transcoders) :
          /\ WellFormed(Transcoders[k])
          /\ TokenResolution(Transcoders[k]) > 0
          /\ TokenFramerate(Transcoders[k]) > 0
    =>
        \E s \in SourceValues :
            /\ result = getTranscoders(Transcoders, s.resolution, s.framerate)
            /\ \A t \in Range(result) :
                  t.Resolution < s.resolution /\ t.Framerate <= s.framerate

\* a token that gets as far as the framerate comparison with a framerate
\* above the source's
Clamped(tok, sr, sf) ==
    LET segs == Split(tok, "p")
        hasF == Len(segs) = 2 /\ Len(segs[2]) > 0
        fr   == IF hasF THEN Atoi(segs[2]).n ELSE DefaultFramerate
    IN  /\ ~Atoi(segs[1]).err
        /\ Atoi(segs[1]).n < sr
        /\ hasF => ~Atoi(segs[2]).err
        /\ fr > sf

\* the diagnostics owed to one token: a lowering line if it is clamped, a
\* skipping line if it is rejected
Owed(tok, sr, sf) ==
    (IF Clamped(tok, sr, sf) THEN << [kind |-> "Lowering", v |-> tok] >> ELSE <<>>)
    \o (IF Rejected(tok, sr, sf) THEN << [kind |-> "Skipping", v |-> tok] >> ELSE <<>>)

RECURSIVE OwedAll(_, _, _)
OwedAll(tokens, sr, sf) ==
    IF tokens = <<>> THEN <<>>
    ELSE Owed(tokens[1], sr, sf) \o OwedAll(Tail(tokens), sr, sf)

\* the printed lines: what kind each is and which token it names
Printed ==
    [k \in 1..Len(log) |->
        [kind |-> IF log[k].msg = "Lowering transcode framerate value in config:"
                  THEN "Lowering" ELSE "Skipping",
         v    |-> log[k].v]]

(* C15: between tokens, the lines printed so far are, token by token, one   *)
(* skipping line naming each token that did not become a candidate and one  *)
(* lowering line naming each clamped token, which is still processed; every *)
(* token without a skipping line has its candidate appended.                *)
C15_NoSilentDrop ==
    pc \in {"range", "done"} =>
        LET seen == SubSeq(Transcoders, 1, i - 1)
        IN  /\ Printed = OwedAll(seen, sourceResolution, sourceFramerate)
            /\ Len(transcoders) =
                  Len(Accepted(seen, sourceResolution, sourceFramerate))

\* a finished pass that skipped a token, clamped another and kept it
C15_Witness ==
    /\ Done
    /\ \E k \in 1..Len(log) : Printed[k].kind = "Skipping"
    /\ \E k \in 1..Len(log) :
          /\ Printed[k].kind = "Lowering"
          /\ \E t \in Range(result) : t.Framerate = sourceFramerate
    /\ Len(log) >= 2

====
